---- MODULE Spec2Model ----
(***************************************************************************)
(* Madrecon (src/mad_recon.py): the recon pipeline of main_cli / run_all.   *)
(*                                                                         *)
(* A file of the output directory is a path (a tuple of the name's         *)
(* "_"-separated components, the ".txt" suffix included as a component)    *)
(* mapped to its text and to the number of times this run wrote it.        *)
(* A text is a sequence of tokens: a token is the newline "\n", the blank  *)
(* " ", or a word (a maximal run of non-whitespace characters); two words  *)
(* are never adjacent in a text.                                           *)
(***************************************************************************)
EXTENDS Naturals, Sequences, FiniteSets, TLC

VARIABLES
    only_set,        \* main_cli: parse_csv_set(args.only); None and set() are both {}
    skip_set,        \* main_cli: parse_csv_set(args.skip)
    wordlist,        \* os.path.exists("wordlists/common.txt"), once it was tested
    pc,              \* position of the main thread
    st,              \* per tool: how far its module invocation got
    fs,              \* the output directory: path -> [text, nwrites]
    outdir,          \* the output directory exists
    pool_max,        \* max_workers of the open ThreadPoolExecutor, 0 when none is open
    queue,           \* work items submitted to the pool and not yet taken by a worker
    tasks,           \* tools submitted to the open pool
    lines,           \* merge_unique: the set `lines`
    writing,         \* merge_unique: the destination open for writing, or NoPath
    subdomains_file, \* run_all: subdomains_file
    input_for_scans, \* run_all: input_for_scans
    gf_outputs,      \* gf_module: the patterns whose output path was recorded
    args,            \* per tool: the input its module was called with
    exc,             \* the exception that escaped run_all, or "none"
    printed,         \* what main_cli / run_all printed
    faults           \* environment faults injected so far (bounded by MaxFaults)

vars == <<only_set, skip_set, wordlist, pc, st, fs, outdir, pool_max, queue, tasks,
          lines, writing, subdomains_file, input_for_scans, gf_outputs, args, exc,
          printed, faults>>

----------------------------------------------------------------------------
(* Bounds *)

\* At most this many environment faults per run: a tool missing from PATH, a
\* spawn that raises, or a process whose output is not the nominal one.
MaxFaults == 1

----------------------------------------------------------------------------
(* Program constants *)

ALL_TOOLS ==
    {"subfinder", "assetfinder", "amass", "httpx", "waybackurls", "gau", "katana",
     "nuclei", "naabu", "dnsx", "ffuf", "gobuster", "dalfox", "gf", "uro", "unfurl",
     "httprobe"}

\* The selection flags a run is started with, as pairs <<only, skip>>: every single
\* tool excluded; the include sets {nuclei} and {subfinder, waybackurls, httpx} with
\* excludes inside and outside them; and "wayback", the name the usage text gives
\* (line 8) although the registry lacks it.
Selections ==
    {<<{}, {}>>, <<{}, {"ffuf", "gobuster"}>>, <<{}, {"wayback"}>>}
    \cup {<<{}, {t}>> : t \in ALL_TOOLS}
    \cup {<<{"nuclei"}, skip>> : skip \in {{}, {"nuclei"}, {"subfinder"}, {"wayback"}}}
    \cup {<<{"subfinder", "waybackurls", "httpx"}, skip>> :
            skip \in {{}, {"httpx"}, {"waybackurls"}}}
    \cup {<<{"subfinder", "wayback", "httpx"}, {}>>}

\* The selections a run into the directory of an earlier run is started with.
RerunSelections == {<<{}, {}>>, <<{}, {"httpx"}>>, <<{"nuclei"}, {}>>, <<{}, {"wayback"}>>}

\* -t/--threads: 1, 2, and the default 8 (validated input: at least 1).
ThreadChoices == {1, 2, 8}

Domain == "example.com"

NoPath == <<>>

----------------------------------------------------------------------------
(* Texts *)

IsSpace(c) == c \in {" ", "\n"}

RECURSIVE NewlineAt(_, _)
\* Index of the first "\n" of text at or after i, 0 when there is none.
NewlineAt(text, i) ==
    IF i > Len(text) THEN 0
    ELSE IF text[i] = "\n" THEN i
    ELSE NewlineAt(text, i + 1)

RECURSIVE SplitLines(_)
\* `for line in fh`: the lines of a text, a last line without newline included and
\* no empty line after a final newline (each line here without its "\n").
SplitLines(text) ==
    IF text = <<>> THEN <<>>
    ELSE LET i == NewlineAt(text, 1)
         IN  IF i = 0 THEN <<text>>
             ELSE <<SubSeq(text, 1, i - 1)>> \o SplitLines(SubSeq(text, i + 1, Len(text)))

RECURSIVE LStrip(_)
LStrip(l) == IF l # <<>> /\ IsSpace(Head(l)) THEN LStrip(Tail(l)) ELSE l

RECURSIVE RStrip(_)
RStrip(l) == IF l # <<>> /\ IsSpace(l[Len(l)]) THEN RStrip(SubSeq(l, 1, Len(l) - 1)) ELSE l

\* str.strip()
Strip(l) == RStrip(LStrip(l))

\* str.split(): the words of a line
Split(l) == SelectSeq(l, LAMBDA c : ~IsSpace(c))

\* "\n--- STDERR ---\n"
STDERR_SEPARATOR == <<"\n", "---", " ", "STDERR", " ", "---", "\n">>

\* f"Error executing command {cmd}: {e}\n"
ErrorText == <<"Error", " ", "executing", " ", "command", "\n">>

\* f"Tool '{tool}' not found in PATH. Install it and re-run.\n"
MissingText(tool) == <<"Tool", " ", tool, " ", "not", " ", "found", "\n">>

\* "ffuf wordlist not found at wordlists/common.txt; skipping ffuf.\n"
MissingWordlistText(tool) == <<tool, " ", "wordlist", " ", "not", " ", "found", "\n">>

----------------------------------------------------------------------------
(* Paths under the output directory *)

Timestamp == "time"

\* os.path.basename: paths are kept relative to the output directory
basename(path) == path

\* os.path.splitext(...)[0]
splitext0(path) == SubSeq(path, 1, Len(path) - 1)

\* f"{tool}_missing.txt"
MissingPath(tool) == <<tool, "missing", "txt">>

\* Mutant of MissingWordlistPath: the wordlist marker takes the name of the
\* missing-tool marker.
MissingWordlistPathAsMissing(tool) == <<tool, "missing", "txt">>

\* f"{tool}_missing_wordlist.txt"
MissingWordlistPath(tool) == <<tool, "missing", "wordlist", "txt">>

AllSubsPath == <<"all", "subs", Domain, "txt">>

UrlsAllPath == <<"urls", "all", Domain, "txt">>

IndexPath == <<"outputs", "index", "txt">>

HttpxOut(input_file) == <<"httpx", "live">> \o basename(input_file) \o <<"txt">>

GF_PATTERNS == <<"xss", "sqli", "redirect", "ssrf">>

GfOut(input_file, pat) == splitext0(basename(input_file)) \o <<"gf", pat, "txt">>

\* OutPath with gau_module writing to the path of wayback_module.
OutPathShared(tool, input) ==
    CASE tool \in {"subfinder", "assetfinder", "amass", "katana"} ->
            <<tool, Domain, "txt">>
      [] tool \in {"waybackurls", "gau"} -> <<"wayback", Domain, "txt">>
      [] tool = "httpx" -> HttpxOut(input)
      [] tool \in {"nuclei", "naabu", "dnsx", "dalfox", "unfurl", "httprobe"} ->
            <<tool>> \o basename(input) \o <<"txt">>
      [] tool \in {"ffuf", "gobuster", "uro"} -> <<tool, Timestamp, "txt">>

\* The artifact path `out` each module builds from its input.
OutPath(tool, input) ==
    CASE tool \in {"subfinder", "assetfinder", "amass", "gau", "katana"} ->
            <<tool, Domain, "txt">>
      [] tool = "waybackurls" -> <<"wayback", Domain, "txt">>
      [] tool = "httpx" -> HttpxOut(input)
      [] tool \in {"nuclei", "naabu", "dnsx", "dalfox", "unfurl", "httprobe"} ->
            <<tool>> \o basename(input) \o <<"txt">>
      [] tool \in {"ffuf", "gobuster", "uro"} -> <<tool, Timestamp, "txt">>

----------------------------------------------------------------------------
(* Order of lines and of file names: sorted() compares code points *)

\* The words of the model in code point order. " " sorts before every word;
\* "txt" stands for the suffix ".txt" ("." sorts before "_", digits and letters)
\* and Timestamp for a run of digits.
WORD_ORDER ==
    <<" ", "---", "txt", Timestamp, "200", "Error", "STDERR", "Tool", "a", "all", "amass",
      "assetfinder", "b", "c", "command", "dalfox", "dnsx", Domain, "executing", "ffuf",
      "found", "gau", "gf", "gobuster", "httprobe", "httpx", "index", "katana", "live",
      "missing", "naabu", "not", "nuclei", "outputs", "r", "redirect", "sqli", "ssrf",
      "subfinder", "subs", "u1", "u2", "unfurl", "urls", "uro", "warn", "wayback",
      "waybackurls", "wordlist", "xss">>

RankOf == [w \in {WORD_ORDER[i] : i \in 1..Len(WORD_ORDER)} |->
              CHOOSE i \in 1..Len(WORD_ORDER) : WORD_ORDER[i] = w]

Rank(w) == RankOf[w]

RECURSIVE LexLess(_, _)
\* a < b for two strings given as sequences of words
LexLess(a, b) ==
    IF b = <<>> THEN FALSE
    ELSE IF a = <<>> THEN TRUE
    ELSE IF Head(a) = Head(b) THEN LexLess(Tail(a), Tail(b))
    ELSE Rank(Head(a)) < Rank(Head(b))

RECURSIVE Insert(_, _)
\* x put at its place in the ascending sequence seq
Insert(x, seq) ==
    IF seq = <<>> THEN <<x>>
    ELSE IF LexLess(x, Head(seq)) THEN <<x>> \o seq
    ELSE <<Head(seq)>> \o Insert(x, Tail(seq))

RECURSIVE Sorted(_)
\* sorted(S): the elements of the set S in ascending order
Sorted(S) ==
    IF S = {} THEN <<>>
    ELSE LET x == CHOOSE y \in S : TRUE
         IN  Insert(x, Sorted(S \ {x}))

RECURSIVE Concat(_)
\* the concatenation of a sequence of sequences
Concat(ss) == IF ss = <<>> THEN <<>> ELSE Head(ss) \o Concat(Tail(ss))

----------------------------------------------------------------------------
(* Files *)

Exists(files, path) == path \in DOMAIN files

\* write_file, and every open(path, "w") ... close: the file is created or replaced
write_file(files, path, content) ==
    IF path \in DOMAIN files
    THEN [files EXCEPT ![path] = [text |-> content, nwrites |-> @.nwrites + 1]]
    ELSE files @@ (path :> [text |-> content, nwrites |-> 1])

----------------------------------------------------------------------------
(* External processes *)

\* What a tool prints when all goes well.
NominalOut(tool) ==
    CASE tool = "subfinder" -> <<"b", "\n", "a", "\n">>
      [] tool = "assetfinder" -> <<"a", "\n">>
      [] tool = "amass" -> <<"c", "\n">>
      [] tool = "waybackurls" -> <<"u2", "\n", "u1", "\n">>
      [] tool = "gau" -> <<"u1", "\n">>
      [] tool = "gf" -> <<"u1", "\n">>
      [] tool = "httpx" -> <<"a", " ", "200", "\n">>
      [] OTHER -> <<"r", "\n">>

Nominal(tool) == [kind |-> "ok", out |-> NominalOut(tool), err |-> <<>>]

\* The tools whose artifact the pipeline itself reads or tests: their processes may
\* also print nothing, or print only to stderr; httpx and gf, whose artifact decides
\* a later step, may also print to both or start with a blank line.
ReadTools == {"subfinder", "assetfinder", "amass", "waybackurls", "gau", "httpx", "gf"}

OddOutputs(tool) ==
    (IF tool \in ReadTools
     THEN {[kind |-> "ok", out |-> <<>>, err |-> <<>>],
           [kind |-> "ok", out |-> <<>>, err |-> <<"warn", "\n">>]}
     ELSE {})
    \cup
    (IF tool \in {"httpx", "gf"}
     THEN {[kind |-> "ok", out |-> NominalOut(tool), err |-> <<"warn", "\n">>],
           [kind |-> "ok", out |-> <<" ", "\n">> \o NominalOut(tool), err |-> <<>>]}
     ELSE {})

\* subprocess.run raised (the executable vanished, permission denied, ...)
SpawnError == [kind |-> "error", out |-> <<>>, err |-> <<>>]

\* shutil.which(tool) found nothing
Missing == [kind |-> "missing", out |-> <<>>, err |-> <<>>]

\* Every outcome of calling a module, and the outcomes of a process once spawned.
Outcomes(tool) == {Nominal(tool), SpawnError, Missing} \cup OddOutputs(tool)

Cost(tool, o) == IF o = Nominal(tool) THEN 0 ELSE 1

\* which(tool)
which(o) == o.kind # "missing"

\* ensure_tool: the marker when the tool is missing
ensure_tool(files, tool, o) ==
    IF ~which(o)
    THEN write_file(files, MissingPath(tool), MissingText(tool))
    ELSE files

\* run_cmd(cmd, outpath): stdout, then the separator and stderr; or the diagnostic
run_cmd(files, outpath, o) ==
    IF o.kind = "ok"
    THEN IF outpath # NoPath
         THEN write_file(files, outpath,
                         o.out \o (IF o.err # <<>> THEN STDERR_SEPARATOR \o o.err ELSE <<>>))
         ELSE files
    ELSE IF outpath # NoPath
         THEN write_file(files, outpath, ErrorText)
         ELSE files

\* dalfox is given "-o out" and writes the file itself when it runs.
ToolWrites(files, tool, out, o) ==
    IF tool = "dalfox" /\ o.kind = "ok" THEN write_file(files, out, o.out) ELSE files

\* Mutant of Module: the `return` after a failed ensure_tool is lost, so the
\* command is run although the tool is missing.
ModuleNoReturn(files, tool, out, o) ==
    run_cmd(ensure_tool(files, tool, o), IF tool = "dalfox" THEN NoPath ELSE out, o)

\* A module wrapper: ensure_tool, then run_cmd on the module's `out`
\* (dalfox_module passes None to run_cmd).
Module(files, tool, out, o) ==
    IF ~which(o)
    THEN ensure_tool(files, tool, o)
    ELSE ToolWrites(run_cmd(files, IF tool = "dalfox" THEN NoPath ELSE out, o), tool, out, o)

----------------------------------------------------------------------------
(* merge_unique *)

\* merge_unique without `l = l.strip()`: the lines are kept as they were read.
MergeLinesUnstripped(files, sources) ==
    UNION {{ls[i] : i \in DOMAIN ls} :
           ls \in {SplitLines(files[f].text) : f \in sources \cap DOMAIN files}}
        \ {<<>>}

\* The set `lines` after reading the sources that exist.
MergeLines(files, sources) ==
    {Strip(l) : l \in UNION {{ls[i] : i \in DOMAIN ls} :
                             ls \in {SplitLines(files[f].text) : f \in sources \cap DOMAIN files}}}
        \ {<<>>}

\* What merge_unique writes: each line of sorted(lines), then "\n".
MergeText(ls) ==
    LET sorted == Sorted(ls)
    IN  Concat([i \in 1..Len(sorted) |-> sorted[i] \o <<"\n">>])

----------------------------------------------------------------------------
(* Selection *)

\* Eligible without its second conjunct: the exclude set is not looked at.
EligibleIgnoringSkip(t) == only_set = {} \/ t \in only_set

\* (not only_set or t in only_set) and (not skip_set or t not in skip_set)
Eligible(t) == (only_set = {} \/ t \in only_set) /\ (skip_set = {} \/ t \notin skip_set)

----------------------------------------------------------------------------
(* Initial states *)

EmptyDir == <<>>

\* An output directory that an earlier run for the same domain left behind
\* (os.makedirs(outdir, exist_ok=True) accepts it): its live-host artifact.
EarlierRun ==
    [p \in {HttpxOut(AllSubsPath)} |-> [text |-> <<"b", " ", "200", "\n">>, nwrites |-> 0]]

Init ==
    /\ \/ fs = EmptyDir /\ \E sel \in Selections : only_set = sel[1] /\ skip_set = sel[2]
       \/ fs = EarlierRun /\ \E sel \in RerunSelections : only_set = sel[1] /\ skip_set = sel[2]
    /\ wordlist = "unchecked"
    /\ outdir = (fs # EmptyDir)
    /\ pc = "main_cli"
    /\ st = [t \in ALL_TOOLS |-> "idle"]
    /\ pool_max = 0
    /\ queue = <<>>
    /\ tasks = {}
    /\ lines = {}
    /\ writing = NoPath
    /\ subdomains_file = NoPath
    /\ input_for_scans = NoPath
    /\ gf_outputs = {}
    /\ args = [t \in ALL_TOOLS |-> NoPath]
    /\ exc = "none"
    /\ printed = <<>>
    /\ faults = 0

----------------------------------------------------------------------------
(* main_cli *)

Allowed(S, tool) == {o \in S : faults + Cost(tool, o) <= MaxFaults}

\* [x for x in sset if x not in ALL_TOOLS]
Invalid(sset) == sset \ ALL_TOOLS

\* Mutant of MainCli: only --only is validated.
MainCliOnlyChecked ==
    /\ pc = "main_cli"
    /\ IF only_set # {} /\ Invalid(only_set) # {}
       THEN /\ printed' = Append(printed, "Invalid tool names in --only")
            /\ pc' = "exit"
       ELSE /\ printed' = printed
            /\ pc' = "makedirs"
    /\ UNCHANGED <<only_set, skip_set, wordlist, st, fs, outdir, pool_max, queue, tasks,
                   lines, writing, subdomains_file, input_for_scans, gf_outputs, args,
                   exc, faults>>

\* The validation loop of main_cli: --only first, then --skip; sys.exit(1) on the
\* first set with an unknown name, else run_all is entered.
MainCli ==
    /\ pc = "main_cli"
    /\ IF only_set # {} /\ Invalid(only_set) # {}
       THEN /\ printed' = Append(printed, "Invalid tool names in --only")
            /\ pc' = "exit"
       ELSE IF skip_set # {} /\ Invalid(skip_set) # {}
       THEN /\ printed' = Append(printed, "Invalid tool names in --skip")
            /\ pc' = "exit"
       ELSE /\ printed' = printed
            /\ pc' = "makedirs"
    /\ UNCHANGED <<only_set, skip_set, wordlist, st, fs, outdir, pool_max, queue, tasks,
                   lines, writing, subdomains_file, input_for_scans, gf_outputs, args,
                   exc, faults>>

\* os.makedirs(outdir, exist_ok=True); the test of lines 286-288 only passes.
Makedirs ==
    /\ pc = "makedirs"
    /\ outdir' = TRUE
    /\ pc' = "enum_pool"
    /\ UNCHANGED <<only_set, skip_set, wordlist, st, fs, pool_max, queue, tasks, lines,
                   writing, subdomains_file, input_for_scans, gf_outputs, args, exc,
                   printed, faults>>

----------------------------------------------------------------------------
(* The thread pools *)

ENUM_TOOLS == <<"subfinder", "assetfinder", "amass">>

Settled(t) == st[t] \in {"missing", "error", "ok"}

Running == {t \in tasks : st[t] = "running"}

\* ex.submit(func, ...): the work item is queued
Submit(t) ==
    /\ tasks' = tasks \cup {t}
    /\ queue' = Append(queue, t)
    /\ st' = [st EXCEPT ![t] = "queued"]

\* with ThreadPoolExecutor(max_workers=3) as ex
EnumPool ==
    /\ pc = "enum_pool"
    /\ pool_max' = 3
    /\ pc' = "enum_submit"
    /\ UNCHANGED <<only_set, skip_set, wordlist, st, fs, outdir, queue, tasks, lines,
                   writing, subdomains_file, input_for_scans, gf_outputs, args, exc,
                   printed, faults>>

\* prepare_subdomains submits its three modules, whatever the selection sets hold.
EnumSubmit ==
    /\ pc = "enum_submit"
    /\ Submit(ENUM_TOOLS[Cardinality(tasks) + 1])
    /\ pc' = IF Cardinality(tasks) + 1 = Len(ENUM_TOOLS) THEN "enum_wait" ELSE "enum_submit"
    /\ UNCHANGED <<only_set, skip_set, wordlist, fs, outdir, pool_max, lines, writing,
                   subdomains_file, input_for_scans, gf_outputs, args, exc, printed,
                   faults>>

\* run_all: with ThreadPoolExecutor(max_workers=threads) as ex
CrawlPool ==
    /\ pc = "crawl_pool"
    /\ \E threads \in ThreadChoices : pool_max' = threads
    /\ pc' = "submit_katana"
    /\ UNCHANGED <<only_set, skip_set, wordlist, st, fs, outdir, queue, tasks, lines,
                   writing, subdomains_file, input_for_scans, gf_outputs, args, exc,
                   printed, faults>>

\* run_all submits katana, waybackurls and gau, each only when eligible.
CrawlSubmit(here, t, next) ==
    /\ pc = here
    /\ IF Eligible(t) THEN Submit(t) ELSE UNCHANGED <<tasks, queue, st>>
    /\ pc' = next
    /\ UNCHANGED <<only_set, skip_set, wordlist, fs, outdir, pool_max, lines, writing,
                   subdomains_file, input_for_scans, gf_outputs, args, exc, printed,
                   faults>>

\* WorkerStart without the limit of max_workers: a thread per work item.
WorkerStartUnbounded ==
    /\ queue # <<>>
    /\ LET t == Head(queue)
       IN  \E o \in Allowed({Nominal(t), SpawnError, Missing}, t) :
             /\ queue' = Tail(queue)
             /\ args' = [args EXCEPT ![t] = <<Domain>>]
             /\ IF o.kind = "ok"
                THEN /\ st' = [st EXCEPT ![t] = "running"]
                     /\ UNCHANGED <<fs, faults>>
                ELSE /\ st' = [st EXCEPT ![t] = o.kind]
                     /\ fs' = Module(fs, t, OutPath(t, <<Domain>>), o)
                     /\ faults' = faults + Cost(t, o)
    /\ UNCHANGED <<only_set, skip_set, wordlist, pc, outdir, pool_max, tasks, lines,
                   writing, subdomains_file, input_for_scans, gf_outputs, exc, printed>>

\* A free worker takes the oldest queued work item and enters the module:
\* ensure_tool, then subprocess.run starts the process (or raises).
WorkerStart ==
    /\ queue # <<>>
    /\ Cardinality(Running) < pool_max
    /\ LET t == Head(queue)
       IN  \E o \in Allowed({Nominal(t), SpawnError, Missing}, t) :
             /\ queue' = Tail(queue)
             /\ args' = [args EXCEPT ![t] = <<Domain>>]
             /\ IF o.kind = "ok"
                THEN /\ st' = [st EXCEPT ![t] = "running"]
                     /\ UNCHANGED <<fs, faults>>
                ELSE /\ st' = [st EXCEPT ![t] = o.kind]
                     /\ fs' = Module(fs, t, OutPath(t, <<Domain>>), o)
                     /\ faults' = faults + Cost(t, o)
    /\ UNCHANGED <<only_set, skip_set, wordlist, pc, outdir, pool_max, tasks, lines,
                   writing, subdomains_file, input_for_scans, gf_outputs, exc, printed>>

\* The process of a pooled module exits: run_cmd writes the artifact.
WorkerFinish ==
    \E t \in Running :
      \E o \in Allowed({x \in Outcomes(t) : x.kind = "ok"}, t) :
        /\ st' = [st EXCEPT ![t] = "ok"]
        /\ fs' = Module(fs, t, OutPath(t, <<Domain>>), o)
        /\ faults' = faults + Cost(t, o)
        /\ UNCHANGED <<only_set, skip_set, wordlist, pc, outdir, pool_max, queue, tasks,
                       lines, writing, subdomains_file, input_for_scans, gf_outputs, args,
                       exc, printed>>

\* Mutant of Barrier: the pool is left without waiting (shutdown(wait=False)).
BarrierNoWait(here, next) ==
    /\ pc = here
    /\ pool_max' = 0
    /\ tasks' = {}
    /\ pc' = next
    /\ UNCHANGED <<only_set, skip_set, wordlist, st, fs, outdir, queue, lines, writing,
                   subdomains_file, input_for_scans, gf_outputs, args, exc, printed,
                   faults>>

\* Leaving the `with` block: ThreadPoolExecutor.__exit__ is shutdown(wait=True),
\* which returns once every submitted work item has run to its end.
Barrier(here, next) ==
    /\ pc = here
    /\ queue = <<>>
    /\ \A t \in tasks : Settled(t)
    /\ pool_max' = 0
    /\ tasks' = {}
    /\ pc' = next
    /\ UNCHANGED <<only_set, skip_set, wordlist, st, fs, outdir, queue, lines, writing,
                   subdomains_file, input_for_scans, gf_outputs, args, exc, printed,
                   faults>>

----------------------------------------------------------------------------
(* The merges *)

EnumFiles == {OutPath(ENUM_TOOLS[i], <<Domain>>) : i \in 1..Len(ENUM_TOOLS)}

ArchiveFiles == {OutPath("waybackurls", <<Domain>>), OutPath("gau", <<Domain>>)}

\* merge_unique up to open(dest, "w"): the sources are read, dest is created empty.
MergeOpen(here, sources, dest) ==
    /\ pc = here
    /\ writing = NoPath
    /\ lines' = MergeLines(fs, sources)
    /\ fs' = write_file(fs, dest, <<>>)
    /\ writing' = dest
    /\ UNCHANGED <<only_set, skip_set, wordlist, pc, st, outdir, pool_max, queue, tasks,
                   subdomains_file, input_for_scans, gf_outputs, args, exc, printed,
                   faults>>

\* merge_unique from the first out.write to the close of dest.
MergeClose(here, next) ==
    /\ pc = here
    /\ writing # NoPath
    /\ fs' = [fs EXCEPT ![writing].text = MergeText(lines)]
    /\ writing' = NoPath
    /\ lines' = {}
    /\ subdomains_file' = IF here = "enum_merge" THEN writing ELSE subdomains_file
    /\ pc' = next
    /\ UNCHANGED <<only_set, skip_set, wordlist, st, outdir, pool_max, queue, tasks,
                   input_for_scans, gf_outputs, args, exc, printed, faults>>

----------------------------------------------------------------------------
(* The stages run_all runs on the main thread *)

\* A module called on the main thread, which blocks in subprocess.run until the
\* process has exited: ensure_tool and run_cmd as one step.
Call(t, input) ==
    \E o \in Allowed(Outcomes(t), t) :
      /\ st' = [st EXCEPT ![t] = o.kind]
      /\ fs' = Module(fs, t, OutPath(t, input), o)
      /\ args' = [args EXCEPT ![t] = input]
      /\ faults' = faults + Cost(t, o)

\* if <t is eligible>: t_module(input, outdir, ...)
Step(here, t, input, next) ==
    /\ pc = here
    /\ IF Eligible(t) THEN Call(t, input) ELSE UNCHANGED <<st, fs, args, faults>>
    /\ pc' = next
    /\ UNCHANGED <<only_set, skip_set, wordlist, outdir, pool_max, queue, tasks, lines,
                   writing, subdomains_file, input_for_scans, gf_outputs, exc, printed>>

\* Step 2: httpx over the merged subdomains
Probe == Step("httpx", "httpx", subdomains_file, "choose")

\* if os.path.exists(httpx_out): input_for_scans = httpx_out, else subdomains_file
ChooseInput ==
    /\ pc = "choose"
    /\ input_for_scans' = IF Exists(fs, HttpxOut(subdomains_file))
                          THEN HttpxOut(subdomains_file)
                          ELSE subdomains_file
    /\ pc' = "dnsx"
    /\ UNCHANGED <<only_set, skip_set, wordlist, st, fs, outdir, pool_max, queue, tasks,
                   lines, writing, subdomains_file, gf_outputs, args, exc, printed,
                   faults>>

\* Step 3: dnsx, naabu, nuclei, one after the other
Scan ==
    \/ Step("dnsx", "dnsx", input_for_scans, "naabu")
    \/ Step("naabu", "naabu", input_for_scans, "nuclei")
    \/ Step("nuclei", "nuclei", input_for_scans, "extract")

\* Step 4: if os.path.exists(urls_all)
Extract ==
    /\ pc = "extract"
    /\ pc' = IF Exists(fs, UrlsAllPath) THEN "gf" ELSE "httprobe"
    /\ UNCHANGED <<only_set, skip_set, wordlist, st, fs, outdir, pool_max, queue, tasks,
                   lines, writing, subdomains_file, input_for_scans, gf_outputs, args,
                   exc, printed, faults>>

\* gf_module up to its loop: ensure_tool("gf"); None is returned when gf is missing.
Gf ==
    /\ pc = "gf"
    /\ IF Eligible("gf")
       THEN \E o \in Allowed({Nominal("gf"), Missing}, "gf") :
              /\ fs' = ensure_tool(fs, "gf", o)
              /\ args' = [args EXCEPT !["gf"] = UrlsAllPath]
              /\ faults' = faults + Cost("gf", o)
              /\ st' = [st EXCEPT !["gf"] = IF which(o) THEN "running" ELSE "missing"]
              /\ pc' = IF which(o) THEN "gf_loop" ELSE "uro"
       ELSE /\ pc' = "uro"
            /\ UNCHANGED <<st, fs, args, faults>>
    /\ UNCHANGED <<only_set, skip_set, wordlist, outdir, pool_max, queue, tasks, lines,
                   writing, subdomains_file, input_for_scans, gf_outputs, exc, printed>>

\* The process of pattern pat prints the matching URLs; only the xss subset is
\* looked at later, so only it takes the other outputs.
GfOutcomes(pat) ==
    {Nominal("gf"), SpawnError} \cup (IF pat = "xss" THEN OddOutputs("gf") ELSE {})

\* One turn of gf_module's loop: run_cmd(["bash", "-lc", "cat ... | gf pat || true"], out)
GfLoop ==
    /\ pc = "gf_loop"
    /\ LET pat == GF_PATTERNS[Cardinality(gf_outputs) + 1]
           last == Cardinality(gf_outputs) + 1 = Len(GF_PATTERNS)
       IN  \E o \in Allowed(GfOutcomes(pat), "gf") :
             /\ fs' = run_cmd(fs, GfOut(UrlsAllPath, pat), o)
             /\ gf_outputs' = gf_outputs \cup {pat}
             /\ faults' = faults + Cost("gf", o)
             /\ st' = [st EXCEPT !["gf"] = IF last THEN "ok" ELSE "running"]
             /\ pc' = IF last THEN "dalfox" ELSE "gf_loop"
    /\ UNCHANGED <<only_set, skip_set, wordlist, outdir, pool_max, queue, tasks, lines,
                   writing, subdomains_file, input_for_scans, args, exc, printed>>

\* if gf_outputs and "xss" in gf_outputs: dalfox, when eligible, on the xss file
Dalfox ==
    /\ pc = "dalfox"
    /\ IF gf_outputs # {} /\ "xss" \in gf_outputs /\ Eligible("dalfox")
       THEN Call("dalfox", GfOut(UrlsAllPath, "xss"))
       ELSE UNCHANGED <<st, fs, args, faults>>
    /\ pc' = "uro"
    /\ UNCHANGED <<only_set, skip_set, wordlist, outdir, pool_max, queue, tasks, lines,
                   writing, subdomains_file, input_for_scans, gf_outputs, exc, printed>>

Uro == Step("uro", "uro", UrlsAllPath, "unfurl")

Unfurl == Step("unfurl", "unfurl", UrlsAllPath, "httprobe")

\* Step 5
Httprobe == Step("httprobe", "httprobe", subdomains_file, "ffuf")

RECURSIVE FirstHostLoop(_)
\* for line in fh: first_host = line.strip().split()[0]; if first_host: break
\* ([0] of an empty list raises IndexError; "" stands for None)
FirstHostLoop(ls) ==
    IF ls = <<>> THEN [raised |-> FALSE, host |-> ""]
    ELSE LET words == Split(Strip(Head(ls)))
         IN  IF words = <<>> THEN [raised |-> TRUE, host |-> ""]
             ELSE IF words[1] # "" THEN [raised |-> FALSE, host |-> words[1]]
             ELSE FirstHostLoop(Tail(ls))

FirstHost(files, path) ==
    IF Exists(files, path) THEN FirstHostLoop(SplitLines(files[path].text))
    ELSE [raised |-> FALSE, host |-> ""]

\* os.path.exists("wordlists/common.txt"): the first test finds out, a later test
\* finds the same.
WordlistSeen == IF wordlist = "unchecked" THEN {"present", "absent"} ELSE {wordlist}

\* Step 6, for ffuf and then gobuster
Fuzz(t, next) ==
    /\ pc = t
    /\ IF ~Eligible(t)
       THEN /\ pc' = next
            /\ UNCHANGED <<wordlist, st, fs, args, faults, exc>>
       ELSE \E wl \in WordlistSeen :
              /\ wordlist' = wl
              /\ IF wl = "absent"
                 THEN /\ fs' = write_file(fs, MissingWordlistPath(t), MissingWordlistText(t))
                      /\ pc' = next
                      /\ UNCHANGED <<st, args, faults, exc>>
                 ELSE LET first == FirstHost(fs, input_for_scans)
                      IN  IF first.raised
                          THEN /\ exc' = "IndexError"
                               /\ pc' = "raised"
                               /\ UNCHANGED <<st, fs, args, faults>>
                          ELSE IF first.host # ""
                          THEN /\ Call(t, <<first.host>>)
                               /\ pc' = next
                               /\ exc' = exc
                          ELSE /\ pc' = next
                               /\ UNCHANGED <<st, fs, args, faults, exc>>
    /\ UNCHANGED <<only_set, skip_set, outdir, pool_max, queue, tasks, lines, writing,
                   subdomains_file, input_for_scans, gf_outputs, printed>>

\* Finalize without sorted(): the names in descending order.
FinalizeUnsorted ==
    /\ pc = "index"
    /\ LET names == Sorted(DOMAIN fs)
       IN  fs' = write_file(fs, IndexPath,
                            [i \in 1..Len(names) |-> names[Len(names) + 1 - i]])
    /\ printed' = Append(printed, "Madrecon run completed")
    /\ pc' = "done"
    /\ UNCHANGED <<only_set, skip_set, wordlist, st, outdir, pool_max, queue, tasks, lines,
                   writing, subdomains_file, input_for_scans, gf_outputs, args, exc,
                   faults>>

\* Final: sorted(os.listdir(outdir)) written to outputs_index.txt, one name per
\* line (the index text is kept as the sequence of those names).
Finalize ==
    /\ pc = "index"
    /\ fs' = write_file(fs, IndexPath, Sorted(DOMAIN fs))
    /\ printed' = Append(printed, "Madrecon run completed")
    /\ pc' = "done"
    /\ UNCHANGED <<only_set, skip_set, wordlist, st, outdir, pool_max, queue, tasks, lines,
                   writing, subdomains_file, input_for_scans, gf_outputs, args, exc,
                   faults>>

----------------------------------------------------------------------------
(* Specification *)

Next ==
    \/ MainCli
    \/ Makedirs
    \/ EnumPool
    \/ EnumSubmit
    \/ WorkerStart
    \/ WorkerFinish
    \/ Barrier("enum_wait", "enum_merge")
    \/ MergeOpen("enum_merge", EnumFiles, AllSubsPath)
    \/ MergeClose("enum_merge", "crawl_pool")
    \/ CrawlPool
    \/ CrawlSubmit("submit_katana", "katana", "submit_waybackurls")
    \/ CrawlSubmit("submit_waybackurls", "waybackurls", "submit_gau")
    \/ CrawlSubmit("submit_gau", "gau", "crawl_wait")
    \/ Barrier("crawl_wait", "crawl_merge")
    \/ MergeOpen("crawl_merge", ArchiveFiles, UrlsAllPath)
    \/ MergeClose("crawl_merge", "httpx")
    \/ Probe
    \/ ChooseInput
    \/ Scan
    \/ Extract
    \/ Gf
    \/ GfLoop
    \/ Dalfox
    \/ Uro
    \/ Unfurl
    \/ Httprobe
    \/ Fuzz("ffuf", "gobuster")
    \/ Fuzz("gobuster", "index")
    \/ Finalize

Spec == Init /\ [][Next]_vars

\* Every spawned process exits and every thread that can take a step takes it.
FairSpec == Spec /\ WF_vars(Next)

----------------------------------------------------------------------------
(* The pooled stages on their own *)

\* run_all up to the end of its second `with ThreadPoolExecutor` block.
PoolNext ==
    \/ MainCli
    \/ Makedirs
    \/ EnumPool
    \/ EnumSubmit
    \/ WorkerStart
    \/ WorkerFinish
    \/ Barrier("enum_wait", "enum_merge")
    \/ MergeOpen("enum_merge", EnumFiles, AllSubsPath)
    \/ MergeClose("enum_merge", "crawl_pool")
    \/ CrawlPool
    \/ CrawlSubmit("submit_katana", "katana", "submit_waybackurls")
    \/ CrawlSubmit("submit_waybackurls", "waybackurls", "submit_gau")
    \/ CrawlSubmit("submit_gau", "gau", "crawl_wait")
    \/ Barrier("crawl_wait", "crawl_merge")

\* A free worker takes the next work item, and every spawned process exits.
PoolSpec == Init /\ [][PoolNext]_vars /\ WF_vars(WorkerStart) /\ WF_vars(WorkerFinish)

----------------------------------------------------------------------------
(* merge_unique on its own *)

\* The longest source text, in tokens.
MaxLen == 3

Tokens == {"a", "b", " ", "\n"}

\* Two words are never adjacent in a text.
IsText(t) == \A i \in 1..(Len(t) - 1) : IsSpace(t[i]) \/ IsSpace(t[i + 1])

Texts == {t \in UNION {[1..n -> Tokens] : n \in 0..MaxLen} : IsText(t)}

\* The list `files` and the path `dest` merge_unique is called with.
MergeSources == {OutPath("subfinder", <<Domain>>), OutPath("assetfinder", <<Domain>>)}

MergeDest == AllSubsPath

\* Any directory in which each source is absent or holds any text.
MergeInit ==
    /\ \E S \in SUBSET MergeSources :
         fs \in [S -> [text : Texts, nwrites : {0}]]
    /\ only_set = {}
    /\ skip_set = {}
    /\ wordlist = "unchecked"
    /\ outdir = TRUE
    /\ pc = "merge"
    /\ st = [t \in ALL_TOOLS |-> "idle"]
    /\ pool_max = 0
    /\ queue = <<>>
    /\ tasks = {}
    /\ lines = {}
    /\ writing = NoPath
    /\ subdomains_file = NoPath
    /\ input_for_scans = NoPath
    /\ gf_outputs = {}
    /\ args = [t \in ALL_TOOLS |-> NoPath]
    /\ exc = "none"
    /\ printed = <<>>
    /\ faults = 0

\* merge_unique with open(dest, "a"): the lines are appended to the destination.
MergeUniqueAppend(here, sources, dest, next) ==
    /\ pc = here
    /\ fs' = write_file(fs, dest,
                        (IF Exists(fs, dest) THEN fs[dest].text ELSE <<>>)
                            \o MergeText(MergeLines(fs, sources)))
    /\ pc' = next
    /\ UNCHANGED <<only_set, skip_set, wordlist, st, outdir, pool_max, queue, tasks,
                   lines, writing, subdomains_file, input_for_scans, gf_outputs, args,
                   exc, printed, faults>>

\* One whole call merge_unique(sources, dest) with no other thread running: the
\* sources that exist are read, then dest is opened with "w" and written.
MergeUnique(here, sources, dest, next) ==
    /\ pc = here
    /\ fs' = write_file(fs, dest, MergeText(MergeLines(fs, sources)))
    /\ pc' = next
    /\ UNCHANGED <<only_set, skip_set, wordlist, st, outdir, pool_max, queue, tasks,
                   lines, writing, subdomains_file, input_for_scans, gf_outputs, args,
                   exc, printed, faults>>

MergeNext ==
    \/ MergeUnique("merge", MergeSources, MergeDest, "merged")
    \/ MergeUnique("merged", MergeSources, MergeDest, "merged_again")

MergeSpec == MergeInit /\ [][MergeNext]_vars

----------------------------------------------------------------------------
(* Vocabulary of the properties *)

\* This run wrote the file at least once.
Wrote(path) == path \in DOMAIN fs /\ fs[path].nwrites > 0

\* The tool a file name belongs to: its first component ("wayback" is
\* waybackurls' artifact, the urls_all_<domain>_gf_<pat> files are gf's).
Owner(path) ==
    IF path[1] = "wayback" THEN "waybackurls"
    ELSE IF path[1] = "urls" /\ Len(path) > Len(UrlsAllPath) THEN "gf"
    ELSE path[1]

\* The files of tool t that this run wrote (artifacts and markers).
Produced(t) == {p \in DOMAIN fs : fs[p].nwrites > 0 /\ Owner(p) = t}

\* run_all has chosen the input of the Scan stage.
InputChosen == input_for_scans # NoPath

\* run_all is past the Fuzz step of t.
FuzzDone(t) == pc \in (IF t = "ffuf" THEN {"gobuster", "index", "done"} ELSE {"index", "done"})

LiveHosts == HttpxOut(AllSubsPath)

RECURSIVE FirstNonBlank(_)
\* The first word of the first non-blank line, "" when every line is blank.
FirstNonBlank(ls) ==
    IF ls = <<>> THEN ""
    ELSE IF Split(Head(ls)) # <<>> THEN Split(Head(ls))[1]
    ELSE FirstNonBlank(Tail(ls))

----------------------------------------------------------------------------
(* C1..C5 *)

\* C1: a tool in the exclude set is never run at any stage: it stays idle (no
\* presence check, no process) and the run writes no artifact or marker of it.
C1_ExcludedNeverRuns ==
    \A t \in skip_set \cap ALL_TOOLS : st[t] = "idle" /\ Produced(t) = {}

\* C2: with a non-empty include set, every tool outside it is skipped everywhere:
\* never invoked, and no artifact or marker of it is written.
C2_OnlyIncludedRun ==
    only_set # {} => \A t \in ALL_TOOLS \ only_set : st[t] = "idle" /\ Produced(t) = {}

\* C3: no exception escapes run_all, and a run that has ended has written
\* outputs_index.txt.
C3_RunReachesIndex ==
    /\ exc = "none"
    /\ pc \in {"done", "raised"} => Wrote(IndexPath)

\* C4: once chosen, the Scan input is the live-host artifact only if that file
\* exists and is non-empty, and is all_subs_<domain>.txt otherwise.
C4_ScanInputNonEmpty ==
    InputChosen =>
        input_for_scans = IF Exists(fs, LiveHosts) /\ fs[LiveHosts].text # <<>>
                          THEN LiveHosts
                          ELSE AllSubsPath

\* C5: with the wordlist present, an eligible fuzzer is given the first word of the
\* first non-blank line of the Scan input, leading blank lines being skipped; it
\* is not invoked when no line is non-blank; and no error is raised.
C5_FuzzTargetFirstNonBlank ==
    /\ exc = "none"
    /\ \A t \in {"ffuf", "gobuster"} :
         (FuzzDone(t) /\ Eligible(t) /\ wordlist = "present") =>
             LET host == FirstNonBlank(SplitLines(fs[input_for_scans].text))
             IN  IF host = "" THEN st[t] = "idle"
                 ELSE st[t] # "idle" /\ args[t] = <<host>>

----------------------------------------------------------------------------
(* C6..C10 *)

CrawlTools == {"katana", "waybackurls", "gau"}

Downstream == {"httpx", "dnsx", "naabu", "nuclei", "gf", "uro", "unfurl", "httprobe"}

Pending(t) == st[t] \in {"queued", "running"}

\* merge_unique has written and closed the file.
Merged(path) == Wrote(path) /\ writing # path

\* C6: a stage's merge starts only when every invocation submitted to the stage's
\* pool has settled, and no downstream tool is invoked before the merged
\* artifacts are written and closed.
C6_StageBarrier ==
    /\ (pc = "enum_merge" \/ Wrote(AllSubsPath)) =>
           \A i \in 1..Len(ENUM_TOOLS) : Settled(ENUM_TOOLS[i])
    /\ (pc = "crawl_merge" \/ Wrote(UrlsAllPath)) => \A t \in CrawlTools : ~Pending(t)
    /\ writing # NoPath => \A t \in ALL_TOOLS : ~Pending(t)
    /\ \A t \in Downstream : st[t] # "idle" => Merged(AllSubsPath) /\ Merged(UrlsAllPath)

\* A downstream tool has run on the merged subdomains of three settled enumerators,
\* one of which was missing.
C6_Witness ==
    /\ st["httpx"] = "ok"
    /\ args["httpx"] = AllSubsPath
    /\ st["subfinder"] = "missing"
    /\ st["amass"] = "ok"
    /\ st["gau"] = "ok"

C7_State ==
    \A t \in ALL_TOOLS :
      /\ st[t] = "missing" =>
             /\ Produced(t) = {MissingPath(t)}
             /\ fs[MissingPath(t)].nwrites = 1
             /\ fs[MissingPath(t)].text = MissingText(t)
      /\ Wrote(MissingPath(t)) => st[t] = "missing"

C7_Step ==
    \A t \in ALL_TOOLS :
      (st[t] # "missing" /\ st'[t] = "missing") =>
          /\ exc' = "none"
          /\ pc' \notin {"raised", "exit"}
          /\ pc' # pc \/ t \in tasks

\* C7: a tool found missing from PATH leaves exactly one marker <tool>_missing.txt,
\* written once, and no other file of the tool; it spawned nothing; and the step
\* that finds it missing raises nothing and hands over to the next step.
C7_MissingToolIsSoft == [](C7_State) /\ [][C7_Step]_vars

\* A run that found nuclei missing has written its index.
C7_Witness == st["nuclei"] = "missing" /\ pc = "done" /\ Wrote(IndexPath)

\* C8: without the wordlist, an eligible fuzzer gets its missing-wordlist marker,
\* written once; no fuzzer is checked for or spawned; and Fuzz raises nothing.
C8_NoWordlist ==
    wordlist = "absent" =>
        /\ pc # "raised"
        /\ \A t \in {"ffuf", "gobuster"} :
             /\ st[t] = "idle"
             /\ ~Wrote(MissingPath(t))
             /\ (FuzzDone(t) /\ Eligible(t)) =>
                    /\ Wrote(MissingWordlistPath(t))
                    /\ fs[MissingWordlistPath(t)].nwrites = 1
             /\ Wrote(MissingWordlistPath(t)) => Eligible(t)

C8_Witness ==
    /\ wordlist = "absent"
    /\ pc = "done"
    /\ Wrote(MissingWordlistPath("ffuf"))
    /\ Wrote(MissingWordlistPath("gobuster"))
    /\ Wrote(IndexPath)

\* C9 as stated: with httpx excluded the probe is skipped and the Scan input is
\* all_subs_<domain>.txt.
C9_SkipHttpxScansSubdomains ==
    ("httpx" \in skip_set /\ InputChosen) =>
        /\ st["httpx"] = "idle"
        /\ Produced("httpx") = {}
        /\ input_for_scans = AllSubsPath

\* What run_all does guarantee with httpx excluded: the probe is skipped (httpx
\* stays idle, the run writes no httpx artifact or marker), and the Scan input is
\* all_subs_<domain>.txt exactly when the output directory held no live-host
\* artifact of an earlier run; a stale one is picked up by the existence test.
C9_SkipHttpxAmended ==
    ("httpx" \in skip_set /\ InputChosen) =>
        /\ st["httpx"] = "idle"
        /\ Produced("httpx") = {}
        /\ pc # "exit"
        /\ input_for_scans = IF Exists(fs, LiveHosts) /\ fs[LiveHosts].nwrites = 0
                             THEN LiveHosts
                             ELSE AllSubsPath

C9_Witness ==
    /\ "httpx" \in skip_set
    /\ pc = "done"
    /\ input_for_scans = AllSubsPath
    /\ args["nuclei"] = AllSubsPath
    /\ st["nuclei"] = "ok"

----------------------------------------------------------------------------
(* C11..C20 *)

\* The lines of a file, as a sequence.
LinesOf(path) == SplitLines(fs[path].text)

\* The stripped, non-empty lines of the sources that exist.
SourceLines(sources) ==
    UNION {{Strip(LinesOf(f)[i]) : i \in DOMAIN LinesOf(f)} : f \in sources \cap DOMAIN fs}
        \ {<<>>}

\* C11: after merge_unique the destination exists (also when no source does), each
\* of its lines ends with a newline, is non-empty and stripped, the lines are in
\* strictly ascending order (hence no duplicate), and they are exactly the stripped
\* non-empty lines of the sources that exist.
C11_MergeSortedUnique ==
    pc \in {"merged", "merged_again"} =>
        /\ Exists(fs, MergeDest)
        /\ LET text == fs[MergeDest].text
               ls == LinesOf(MergeDest)
           IN  /\ text # <<>> => text[Len(text)] = "\n"
               /\ \A i \in DOMAIN ls : ls[i] # <<>> /\ Strip(ls[i]) = ls[i]
               /\ \A i \in DOMAIN ls : \A j \in DOMAIN ls : i < j => LexLess(ls[i], ls[j])
               /\ {ls[i] : i \in DOMAIN ls} = SourceLines(MergeSources)

\* Two unsorted lines in one source, the last without newline; in the other a line
\* to strip that the first source holds too.
C11_Witness ==
    /\ pc = "merged"
    /\ DOMAIN fs = MergeSources \cup {MergeDest}
    /\ fs[OutPath("subfinder", <<Domain>>)].text = <<"b", "\n", "a">>
    /\ fs[OutPath("assetfinder", <<Domain>>)].text = <<" ", "a", "\n">>
    /\ fs[MergeDest].text = <<"a", "\n", "b", "\n">>

\* C12: a second merge_unique of the same unchanged sources into the same
\* destination leaves the destination's content as the first merge wrote it.
C12_MergeIdempotent ==
    [][(pc = "merged" /\ pc' = "merged_again") =>
           /\ fs'[MergeDest].text = fs[MergeDest].text
           /\ \A f \in MergeSources : Exists(fs', f) = Exists(fs, f)
           /\ \A f \in MergeSources \cap DOMAIN fs : fs'[f] = fs[f]]_vars

C12_Witness ==
    /\ pc = "merged_again"
    /\ fs[MergeDest].nwrites = 2
    /\ fs[MergeDest].text = <<"a", " ", "b", "\n", "b", "\n">>

\* C13: every module whose executable was found (its process exited, or the
\* spawn failed) has written exactly one file per command it ran (gf_module runs
\* one command per pattern), and after a failed spawn that file holds the
\* diagnostic line of run_cmd.
C13_OneArtifactPerInvocation ==
    \A t \in ALL_TOOLS :
        st[t] \in {"ok", "error"} =>
            /\ Cardinality(Produced(t)) = IF t = "gf" THEN Cardinality(gf_outputs) ELSE 1
            /\ st[t] = "error" => \E p \in Produced(t) : fs[p].text = ErrorText

ExtractTools == {"gf", "dalfox", "uro", "unfurl"}

\* C14: while urls_all_<domain>.txt is absent or empty, none of gf, dalfox, uro and
\* unfurl has been invoked and none has left an artifact or marker.
C14_ExtractNeedsUrls ==
    (~Exists(fs, UrlsAllPath) \/ fs[UrlsAllPath].text = <<>>) =>
        \A t \in ExtractTools : st[t] = "idle" /\ Produced(t) = {}

XssFile == GfOut(UrlsAllPath, "xss")

\* C15: dalfox is invoked only after gf has run and left a non-empty XSS subset
\* urls_all_<domain>_gf_xss.txt.
C15_DalfoxNeedsXss ==
    st["dalfox"] # "idle" =>
        /\ st["gf"] = "ok"
        /\ Exists(fs, XssFile)
        /\ fs[XssFile].text # <<>>

ScanTools == {"dnsx", "naabu", "nuclei"}

\* C16: dnsx, naabu and nuclei are run as work items of a pool opened with the
\* configured worker budget, which is what lets two of them execute at the same
\* time and finish in either order: each of them starts by being queued on an
\* open pool.
C16_ScanOnPool ==
    [][\A t \in ScanTools :
          (st[t] = "idle" /\ st'[t] # "idle") => (st'[t] = "queued" /\ pool_max > 0)]_vars

\* What run_all does instead: the three modules are called one after the other on
\* the main thread, so none is ever pending and naabu starts after dnsx has
\* ended, nuclei after naabu.
ScanInOrder ==
    /\ \A t \in ScanTools : ~Pending(t)
    /\ st["naabu"] # "idle" => pc \notin {"dnsx", "naabu"} \/ pc = "raised"
    /\ st["nuclei"] # "idle" => pc \notin {"dnsx", "naabu", "nuclei"}

PoolTools == {ENUM_TOOLS[i] : i \in 1..Len(ENUM_TOOLS)} \cup CrawlTools

\* C17: at every moment the number of pooled invocations executing is at most
\* max_workers of the open pool (3 for Enumerate, `threads` for Archive/Crawl) and
\* a work item is taken, in the order of submission, only while a worker is free;
\* and, every process exiting in the end, every submitted invocation is eventually
\* taken by a worker and runs to its end.
C17_WorkerBudget ==
    /\ [](Cardinality(Running) <= pool_max)
    /\ [](pc \in {"enum_submit", "enum_wait"} => pool_max = 3)
    /\ [](pc \in {"submit_katana", "submit_waybackurls", "submit_gau", "crawl_wait"}
             => pool_max \in ThreadChoices)
    /\ [][queue' # queue =>
              \/ \E t \in PoolTools : queue' = Append(queue, t)
              \/ /\ queue # <<>>
                 /\ queue' = Tail(queue)
                 /\ Cardinality(Running) < pool_max]_vars
    /\ \A t \in PoolTools : (st[t] = "queued") ~> Settled(t)

\* The budget is used up while a later invocation waits in the queue.
C17_Witness ==
    /\ pc = "crawl_wait"
    /\ pool_max = 2
    /\ Cardinality(Running) = 2
    /\ queue = <<"gau">>

\* C18: outputs_index.txt is written once, when nothing is running any more, and
\* nothing is written after it; it lists, in strictly ascending order, exactly the
\* names present in the directory when the listing was taken, hence every
\* artifact and marker the run produced; and a run that ends has written it.
C18_IndexWrittenLast ==
    /\ [](Exists(fs, IndexPath) =>
             LET index == fs[IndexPath].text
             IN  /\ fs[IndexPath].nwrites = 1
                 /\ pc = "done"
                 /\ queue = <<>> /\ tasks = {} /\ writing = NoPath
                 /\ \A t \in ALL_TOOLS : ~Pending(t)
                 /\ \A i \in DOMAIN index : \A j \in DOMAIN index :
                        i < j => LexLess(index[i], index[j])
                 /\ {index[i] : i \in DOMAIN index} = DOMAIN fs \ {IndexPath}
                 /\ \A t \in ALL_TOOLS : Produced(t) \subseteq {index[i] : i \in DOMAIN index})
    /\ [](pc = "done" => Wrote(IndexPath))
    /\ [][Wrote(IndexPath) => fs' = fs]_vars

\* A complete run whose index lists a marker among the artifacts.
C18_Witness ==
    /\ pc = "done"
    /\ Wrote(IndexPath)
    /\ Len(fs[IndexPath].text) >= 20
    /\ \E i \in DOMAIN fs[IndexPath].text : fs[IndexPath].text[i] = MissingPath("nuclei")

\* The stripped, non-empty lines a tool of the set may print on standard output.
StdoutLines(tools) ==
    UNION {{Strip(ls[i]) : i \in DOMAIN ls} :
           ls \in {SplitLines(o.out) : o \in UNION {Outcomes(t) : t \in tools}}}
        \ {<<>>}

\* C19: every line of all_subs_<domain>.txt is a standard-output line of an
\* enumerator, and every line of urls_all_<domain>.txt one of waybackurls or gau:
\* neither the stderr separator, nor a stderr line, nor the diagnostic of a failed
\* spawn is among them.
C19_MergedLinesAreStdout ==
    /\ Exists(fs, AllSubsPath) =>
          \A i \in DOMAIN LinesOf(AllSubsPath) :
             LinesOf(AllSubsPath)[i] \in StdoutLines(PoolTools \ CrawlTools)
    /\ Exists(fs, UrlsAllPath) =>
          \A i \in DOMAIN LinesOf(UrlsAllPath) :
             LinesOf(UrlsAllPath)[i] \in StdoutLines({"waybackurls", "gau"})

\* C20: no path is written more than once in a run, and a file that was written
\* and closed is never changed or removed afterwards.
C20_WriteOnce ==
    /\ [](\A p \in DOMAIN fs : fs[p].nwrites <= 1)
    /\ [][\A p \in DOMAIN fs :
            (fs[p].nwrites > 0 /\ writing # p) => (p \in DOMAIN fs' /\ fs'[p] = fs[p])]_vars

\* A complete run into a fresh directory: every file was written once, the
\* artifacts of the concurrent archive tools among them.
C20_Witness ==
    /\ pc = "done"
    /\ Cardinality(DOMAIN fs) >= 20
    /\ \A p \in DOMAIN fs : fs[p].nwrites = 1
    /\ Wrote(OutPath("waybackurls", <<Domain>>))
    /\ Wrote(OutPath("gau", <<Domain>>))

====
